---- MODULE Spec2Model ----
(***************************************************************************)
(* The Clara server (app/main.py): the speak and audio handlers, the       *)
(* WebSocket notification list, and the audio-cache cleanup task, all      *)
(* running on one asyncio event loop.  A step of the model is the code     *)
(* one coroutine runs between two suspension points (await).               *)
(***************************************************************************)
EXTENDS Integers, Sequences, FiniteSets, TLC

\* ---------------------------------------------------------------- bounds
NumSpeak == 2       \* speak requests in a run
NumFetch == 1       \* GET /audio requests in a run
NumClients == 2     \* WebSocket connections in a run
NumPrompt == 3      \* prompt requests in a run
MaxTime == 2        \* the clock runs from 0 to MaxTime
MaxTtl == 1         \* largest audio_cache_ttl_seconds tried

SpeakIds == 1..NumSpeak
FetchIds == 1..NumFetch
Clients == 1..NumClients
PromptIds == 1..NumPrompt
Times == 0..MaxTime
TtlValues == -1..MaxTtl

\* ---------------------------------------------------------------- inputs
NoText == ""                          \* payload.text absent or empty
Texts == {NoText, "a", "b"}
Credentials == {"mysecrettoken", "wrongtoken"}
Seeds == {"s1", "s2"}                 \* the hash seeds a process may start with
Outcomes == {"tts", "silence", "raise"}

\* config.bearer_token (default)
bearer_token == "mysecrettoken"

\* hash() of a str: the value depends on the text and on the seed the
\* interpreter drew at start-up (string hashing is randomised per process)
Hash(t, seed) == IF t = "a" THEN "a@" \o seed ELSE "b@" \o seed

\* the names the cache can hold
Guids == {Hash(t, s) : t \in Texts \ {NoText}, s \in Seeds}
FetchGuids == Guids \cup {"unknown"}  \* what a client may ask /audio for

\* file contents
Absent == "absent"
NoFile == [mtime |-> 0, content |-> Absent]
MastersOfTheEarth == "masters_of_the_earth.wav"
ValidWav(b) == b \in {"tts:a", "tts:b", "silence", "masters"}

VARIABLES
    lifespan,           \* the lifespan context: "serving", "stopping" or "stopped"
    cer,                \* _cerebrum_session and the sessions the backend has created
    pr,                 \* the prompt requests
    conf,               \* app.config: the environment, clara_config.json, the Config object
    hashseed,           \* the hash seed of the running process
    now,                \* time.time()
    ttl,                \* config.audio_cache_ttl_seconds
    sweeper,            \* the cleanup task: "none" or "sleeping"
    swept,              \* the report of the cleanup cycle, if the last step was one
    files,              \* audio_cache_dir: name -> file
    assets,             \* ./app/assets: the static clips present
    connected_clients,  \* the list of registered WebSockets
    ws,                 \* each WebSocket's connection state
    inbox,              \* what each WebSocket's peer has received
    sp,                 \* the speak requests
    ft                  \* the /audio requests

vars == <<lifespan, cer, pr, conf, hashseed, now, ttl, sweeper, swept, files, assets, connected_clients, ws, inbox, sp, ft>>

\* ------------------------------------------------------------ helpers
\* str(hash(payload.text)) in the running process
text_hash(t) == Hash(t, hashseed)

\* cached_file.exists()
Exists(k) == files[k].content # Absent

\* the credential check of speak
AuthorizedAnyone(cred) == TRUE
Authorized(cred) == cred = bearer_token

\* `if not payload.text`: the request carries a text to speak
HasTextAlways(text) == TRUE
HasText(text) == text # NoText

\* `if not cached_file.exists()`: synthesis is needed
CacheMissAlways(k) == TRUE
CacheMiss(k) == ~Exists(k)

\* what ChatterboxTTS.synthesize_to_wav leaves at out_path: the model's audio,
\* or the silent fallback WAV when the model raised (or FALLBACK_ONLY is set)
SynthesizedNoFallback(t, outcome) ==
    IF outcome = "tts" THEN "tts:" \o t ELSE "truncated"
SynthesizedNothing(t, outcome) == Absent
Synthesized(t, outcome) ==
    IF outcome = "tts" THEN "tts:" \o t ELSE "silence"

\* list.remove(x): drops the first occurrence, ValueError (swallowed) if none
RemoveNothing(s, x) == s
Remove(s, x) ==
    IF \E i \in 1..Len(s) : s[i] = x
    THEN LET i == CHOOSE j \in 1..Len(s) : s[j] = x /\ \A h \in 1..(j - 1) : s[h] # x
         IN  SubSeq(s, 1, i - 1) \o SubSeq(s, i + 1, Len(s))
    ELSE s

\* the list iterator of `for client in connected_clients` has another element
HasNext(i) == i < Len(connected_clients)

\* next() of the list iterator raises because the list changed size under it:
\* never, a list iterator only compares its index with the current length
IterRaisesOnShrink(i) == i > Len(connected_clients)
IterRaises(i) == FALSE

\* client.send_text(message) raises: the connection is gone
SendRaises(c) == ws[c] # "open"

\* an exception raised by send_text leaves broadcast_message: never, the
\* loop body is `try: ... except Exception: pass`
PropagatesAll(raised) == raised
Propagates(raised) == FALSE

\* the message of broadcast_message(text_hash): the key of the request
NoticeText(rec) == rec.text
Notice(rec) == rec.guid

\* client.send_text(message): reaches the peer unless the connection is gone
\* (then it raises, and broadcast_message swallows the exception)
SendText(c, r) ==
    IF ws[c] = "open" THEN [inbox EXCEPT ![c] = Append(@, r)] ELSE inbox

\* the key a speak request publishes and returns in X-Clara-Audio-GUID
KeyOf(r) == text_hash(sp[r].text)

\* the request has entered broadcast_message
PublishStarted(r) ==
    /\ sp[r].ev # <<>>
    /\ sp[r].ev[1] \in {"hit", "tts", "silence"}

\* the path of the file names the assets directory: `"assets" in str(audio_file)`
InAssets(k) == k = MastersOfTheEarth

\* the files a cleanup cycle looks at: audio_cache_dir.glob("*.wav"), less
\* the paths that name the assets directory
SweepCandidatesAll == Guids \cup assets
SweepCandidates == {k \in Guids : ~InAssets(k)}

\* the file is there
Present(k) == IF k \in Guids THEN Exists(k) ELSE k \in assets

\* now - audio_file.stat().st_mtime; the static clips were shipped with the
\* program and are older than every ttl
FileAgeReversed(k) == IF k \in Guids THEN files[k].mtime - now ELSE 0 - (now + MaxTtl + 1)
FileAge(k) == IF k \in Guids THEN now - files[k].mtime ELSE now + MaxTtl + 1

\* file_age > ttl
ExpiredAtTtl(age, t) == age >= t
Expired(age, t) == age > t

\* `if config.audio_cache_ttl_seconds <= 0: continue`
SweepDisabledBelowZero(t) == t < 0
SweepDisabled(t) == t <= 0

IdleSpeak == [pc |-> "idle", cred |-> "", text |-> NoText, guid |-> "", idx |-> 0,
              path |-> "none", status |-> 0, body |-> "", mt |-> 0, ev |-> <<>>,
              whole |-> {}, failed |-> {}, ord |-> 0, sent |-> {}, header |-> "",
              file |-> ""]
IdleFetch == [pc |-> "idle", guid |-> "", found |-> FALSE, status |-> 0, body |-> "",
              after |-> {}, since |-> {}]
IdlePrompt == [pc |-> "idle", session |-> 0, status |-> 0]
NoSession == [session |-> 0, created |-> 0]     \* _cerebrum_session is None
NoCycle == [res |-> "none", edge |-> {}, gone |-> {}, bad |-> {}]

\* ---------------------------------------------------------------- config
\* the values of Python and JSON that the settings take
IntV(n) == [t |-> "int", i |-> n, s |-> ""]
StrV(x) == [t |-> "str", i |-> 0, s |-> x]
NoneV == [t |-> "none", i |-> 0, s |-> ""]
Unset == [t |-> "unset", i |-> 0, s |-> ""]    \* variable not set, key not in the file
Raised == [t |-> "raise", i |-> 0, s |-> ""]   \* the conversion raised ValueError

\* the integers the settings take, with their decimal strings
DecimalStrings ==
    {<<0, "0">>, <<300, "300">>, <<1800, "1800">>, <<3600, "3600">>, <<5000, "5000">>,
     <<7200, "7200">>, <<8000, "8000">>, <<9000, "9000">>}

\* str(v)
PyStr(v) ==
    IF v.t = "int" THEN StrV((CHOOSE d \in DecimalStrings : d[1] = v.i)[2])
    ELSE IF v.t = "none" THEN StrV("None")
    ELSE v

\* int(s) of a string: its number, or ValueError
PyInt(v) ==
    IF v.t = "str" /\ \E d \in DecimalStrings : d[2] = v.s
    THEN IntV((CHOOSE d \in DecimalStrings : d[2] = v.s)[1])
    ELSE Raised

\* Config.__init__: the built-in settings
Defaults ==
    [host |-> StrV("0.0.0.0"), port |-> IntV(8000),
     audio_cache_ttl_seconds |-> IntV(3600),
     audio_cache_cleanup_interval_seconds |-> IntV(300),
     bearer_token |-> StrV("mysecrettoken")]

Settings == DOMAIN Defaults

\* the environment of the process: CLARA_HOST, CLARA_PORT, CLARA_AUDIO_TTL and
\* CLARA_BEARER_TOKEN, each unset or a string
Environments ==
    [host : {Unset, StrV("192.168.1.1")},
     port : {Unset, StrV("5000"), StrV("abc")},
     audio_cache_ttl_seconds : {Unset, StrV("1800"), StrV("0")},
     bearer_token : {Unset, StrV("env-token")}]

\* clara_config.json: not there, not readable as a JSON object, or an object
\* that has some of the keys
ConfigFiles ==
    [kind : {"absent", "invalid"}, data : {[k \in Settings |-> Unset]}]
    \cup
    [kind : {"object"},
     data : [host : {Unset, StrV("127.0.0.1")},
             port : {Unset, IntV(9000), StrV("9000"), NoneV},
             audio_cache_ttl_seconds : {Unset, IntV(7200)},
             audio_cache_cleanup_interval_seconds : {Unset, IntV(1800)},
             bearer_token : {Unset, StrV("test-token-123")}]]

\* data.get(key, default)
DataGet(data, key, default) == IF data[key] = Unset THEN default ELSE data[key]

\* os.getenv(name, default)
GetenvNever(env, name, default) == default
Getenv(env, name, default) == IF env[name] = Unset THEN default ELSE env[name]

\* _load_from_file, first part: the settings after the file has been read
FromFile(file) ==
    IF file.kind = "object"
    THEN [k \in Settings |-> DataGet(file.data, k, Defaults[k])]
    ELSE Defaults

\* _load_from_file, second part: the environment variables override
FromEnv(env, c) ==
    [c EXCEPT !.host = Getenv(env, "host", c.host),
              !.port = PyInt(Getenv(env, "port", PyStr(c.port))),
              !.audio_cache_ttl_seconds =
                  PyInt(Getenv(env, "audio_cache_ttl_seconds",
                               PyStr(c.audio_cache_ttl_seconds))),
              !.bearer_token = Getenv(env, "bearer_token", c.bearer_token)]

\* the process as it is started: nothing set, no file
NoSettings ==
    [pc |-> "start", env |-> [k \in Settings \ {"audio_cache_cleanup_interval_seconds"} |-> Unset],
     file |-> [kind |-> "absent", data |-> [k \in Settings |-> Unset]], cfg |-> Defaults]

\* config = Config(), when app.config is imported
LoadConfig ==
    /\ conf.pc = "start"
    /\ LET c == FromEnv(conf.env, FromFile(conf.file)) IN
       conf' = IF \E k \in Settings : c[k] = Raised
               THEN [conf EXCEPT !.pc = "raised"]
               ELSE [conf EXCEPT !.pc = "loaded", !.cfg = c]
    /\ UNCHANGED <<lifespan, cer, pr, hashseed, now, ttl, sweeper, swept, files, assets,
                   connected_clients,
                   ws, inbox, sp, ft>>

\* ---------------------------------------------------------------- Init
\* the server with nothing connected, nothing cached and no request made;
\* lifespan: the cleanup task is created only when the ttl is positive
ServerStart ==
    /\ lifespan = "serving"
    /\ cer = NoSession
    /\ pr = [p \in PromptIds |-> IdlePrompt]
    /\ hashseed \in Seeds
    /\ now = 0
    /\ ttl \in TtlValues
    /\ sweeper = IF ttl > 0 THEN "sleeping" ELSE "none"
    /\ swept = NoCycle
    /\ files = [k \in Guids |-> NoFile]
    /\ assets = {MastersOfTheEarth}
    /\ connected_clients = <<>>
    /\ ws = [c \in Clients |-> "new"]
    /\ inbox = [c \in Clients |-> <<>>]
    /\ sp = [r \in SpeakIds |-> IdleSpeak]
    /\ ft = [f \in FetchIds |-> IdleFetch]

Init == conf = NoSettings /\ ServerStart

\* ------------------------------------------------------------- speak
\* the first or a later turn of the loop of broadcast_message for request r,
\* whose iterator stands at i: send to the next client and suspend in the
\* await, or leave the loop and return the FileResponse of the cached file
BroadcastNotAwaited(r, i, rec) ==
    /\ inbox' = IF HasNext(i) THEN SendText(connected_clients[i + 1], r) ELSE inbox
    /\ sp' = [sp EXCEPT ![r] = [rec EXCEPT !.pc = "send", !.path = "cache", !.idx = i + 1]]
BroadcastTurn(r, i, rec) ==
    IF IterRaises(i) \/ (HasNext(i) /\ Propagates(SendRaises(connected_clients[i + 1])))
    THEN \* an exception leaves broadcast_message and speak: 500
         /\ inbox' = inbox
         /\ sp' = [sp EXCEPT ![r] = [rec EXCEPT !.pc = "done", !.path = "cache",
                                                 !.status = 500, !.body = "error",
                                                 !.failed = IF HasNext(i)
                                                            THEN @ \cup {connected_clients[i + 1]}
                                                            ELSE @]]
    ELSE IF HasNext(i)
    THEN LET c == connected_clients[i + 1] IN
         /\ inbox' = SendText(c, r)
         /\ sp' = [sp EXCEPT ![r] = [rec EXCEPT !.pc = "bcast", !.idx = i + 1,
                                                 !.sent = @ \cup {Notice(rec)},
                                                 !.failed = IF SendRaises(c)
                                                            THEN @ \cup {c} ELSE @]]
    ELSE /\ inbox' = inbox
         /\ sp' = [sp EXCEPT ![r] = [rec EXCEPT !.pc = "send", !.path = "cache",
                                                 !.header = rec.guid,
                                                 !.ev = Append(@, "pub")]]

\* POST /clara/api/v1/speak, from the entry of the handler to its first await
SpeakStart(r, cred, text, outcome) ==
    /\ sp[r].pc = "idle"
    /\ LET req == [IdleSpeak EXCEPT !.cred = cred, !.text = text]
           k == text_hash(text)
       IN
       IF ~Authorized(cred)
       THEN \* HTTPException(403)
            /\ sp' = [sp EXCEPT ![r] = [req EXCEPT !.pc = "done", !.status = 403,
                                                    !.body = "error"]]
            /\ UNCHANGED <<files, inbox>>
       ELSE IF ~HasText(text)
       THEN \* FileResponse(./app/assets/masters_of_the_earth.wav)
            /\ sp' = [sp EXCEPT ![r] = [req EXCEPT !.pc = "send", !.path = "asset"]]
            /\ UNCHANGED <<files, inbox>>
       ELSE IF CacheMiss(k) /\ outcome = "raise"
       THEN \* synthesize_to_wav raised: fall back to the static clip, or 500
            /\ UNCHANGED <<files, inbox>>
            /\ IF MastersOfTheEarth \in assets
               THEN sp' = [sp EXCEPT ![r] = [req EXCEPT !.pc = "send", !.path = "asset",
                                                         !.ev = <<"raise">>]]
               ELSE sp' = [sp EXCEPT ![r] = [req EXCEPT !.pc = "done", !.status = 500,
                                                         !.body = "error",
                                                         !.ev = <<"raise">>]]
       ELSE /\ files' = IF CacheMiss(k)
                        THEN [files EXCEPT ![k] = [mtime |-> now,
                                                   content |-> Synthesized(text, outcome)]]
                        ELSE files
            /\ BroadcastTurn(r, 0,
                   [req EXCEPT !.guid = k,
                               !.ev = <<IF CacheMiss(k) THEN outcome ELSE "hit">>,
                               !.whole = {c \in Clients :
                                             /\ ws[c] = "open"
                                             /\ \E i \in 1..Len(connected_clients) :
                                                    connected_clients[i] = c},
                               !.ord = 1 + Cardinality({q \in SpeakIds : PublishStarted(q)})])
    /\ swept' = NoCycle
    /\ UNCHANGED <<lifespan, cer, pr, conf, hashseed, now, ttl, sweeper, assets, connected_clients, ws, ft>>

\* broadcast_message resumes from `await client.send_text(message)`
BroadcastStep(r) ==
    /\ sp[r].pc = "bcast"
    /\ BroadcastTurn(r, sp[r].idx, sp[r])
    /\ swept' = NoCycle
    /\ UNCHANGED <<lifespan, cer, pr, conf, hashseed, now, ttl, sweeper, files, assets, connected_clients, ws, ft>>

\* what FileResponse sends for a path: the file's bytes with 200 and its
\* modification time (Last-Modified), or, when the file is not there at the
\* time it is streamed, an unhandled RuntimeError (500)
Streamed(path, k) ==
    IF path = "asset"
    THEN IF MastersOfTheEarth \in assets
         THEN [status |-> 200, body |-> "masters", mt |-> 0]
         ELSE [status |-> 500, body |-> "error", mt |-> 0]
    ELSE IF Exists(k)
         THEN [status |-> 200, body |-> files[k].content, mt |-> files[k].mtime]
         ELSE [status |-> 500, body |-> "error", mt |-> 0]

\* the FileResponse returned by speak is sent
SpeakRespond(r) ==
    /\ sp[r].pc = "send"
    /\ LET out == Streamed(sp[r].path, KeyOf(r)) IN
       sp' = [sp EXCEPT ![r] = [@ EXCEPT !.pc = "done", !.status = out.status,
                                          !.body = out.body, !.mt = out.mt,
                                          !.file = IF sp[r].path = "cache"
                                                   THEN KeyOf(r) ELSE MastersOfTheEarth,
                                          !.ev = Append(@, "resp")]]
    /\ swept' = NoCycle
    /\ UNCHANGED <<lifespan, cer, pr, conf, hashseed, now, ttl, sweeper, files, assets, connected_clients, ws, inbox, ft>>

\* ------------------------------------------------------------- get_audio
\* the speak requests that have returned the artifact of key g
Served(g) ==
    {r \in SpeakIds : /\ sp[r].pc = "done" /\ sp[r].path = "cache" /\ sp[r].status = 200
                      /\ KeyOf(r) = g}

\* those of them whose file is still the one cached under g
ServedFrom(g) == {r \in Served(g) : Exists(g) /\ sp[r].mt = files[g].mtime}

\* GET /audio/{guid}: 404 when the file is absent, else a FileResponse
FetchStart(f, g) ==
    /\ ft[f].pc = "idle"
    /\ IF g \in Guids /\ Exists(g)
       THEN ft' = [ft EXCEPT ![f] = [IdleFetch EXCEPT !.pc = "send", !.guid = g,
                                                      !.found = TRUE,
                                                      !.after = Served(g),
                                                      !.since = ServedFrom(g)]]
       ELSE ft' = [ft EXCEPT ![f] = [IdleFetch EXCEPT !.pc = "done", !.guid = g,
                                                      !.status = 404, !.body = "error",
                                                      !.after = IF g \in Guids THEN Served(g)
                                                                ELSE {}]]
    /\ swept' = NoCycle
    /\ UNCHANGED <<lifespan, cer, pr, conf, hashseed, now, ttl, sweeper, files, assets, connected_clients, ws, inbox, sp>>

\* the FileResponse returned by get_audio is sent
FetchRespond(f) ==
    /\ ft[f].pc = "send"
    /\ LET out == Streamed("cache", ft[f].guid) IN
       ft' = [ft EXCEPT ![f] = [@ EXCEPT !.pc = "done", !.status = out.status,
                                          !.body = out.body]]
    /\ swept' = NoCycle
    /\ UNCHANGED <<lifespan, cer, pr, conf, hashseed, now, ttl, sweeper, files, assets, connected_clients, ws, inbox, sp>>

\* ------------------------------------------------------------- prompt
\* POST /clara/api/v1/prompt up to its first await: the credential check, then
\* _get_cerebrum_session, which calls create_session when _cerebrum_session is
\* None and returns the session held otherwise
PromptStart(p, cred) ==
    /\ pr[p].pc = "idle"
    /\ IF ~Authorized(cred)
       THEN pr' = [pr EXCEPT ![p] = [IdlePrompt EXCEPT !.pc = "done", !.status = 403]]
       ELSE IF cer.session = 0
       THEN pr' = [pr EXCEPT ![p] = [IdlePrompt EXCEPT !.pc = "creating"]]
       ELSE pr' = [pr EXCEPT ![p] = [IdlePrompt EXCEPT !.pc = "eval",
                                                     !.session = cer.session]]
    /\ swept' = NoCycle
    /\ UNCHANGED <<lifespan, cer, conf, hashseed, now, ttl, sweeper, files, assets,
                   connected_clients, ws, inbox, sp, ft>>

\* `await _cerebrum_client.create_session(...)` returns: the backend has
\* created a session, which is assigned to _cerebrum_session and returned; or
\* it raises, and the request ends with 500
PromptCreated(p, ok) ==
    /\ pr[p].pc = "creating"
    /\ IF ok
       THEN /\ cer' = [session |-> cer.created + 1, created |-> cer.created + 1]
            /\ pr' = [pr EXCEPT ![p] = [@ EXCEPT !.pc = "eval",
                                                 !.session = cer.created + 1]]
       ELSE /\ cer' = cer
            /\ pr' = [pr EXCEPT ![p] = [@ EXCEPT !.pc = "done", !.status = 500]]
    /\ swept' = NoCycle
    /\ UNCHANGED <<lifespan, conf, hashseed, now, ttl, sweeper, files, assets,
                   connected_clients, ws, inbox, sp, ft>>

\* `await session.eval(clips_script)` returns or raises: 200 or 500
PromptEval(p, ok) ==
    /\ pr[p].pc = "eval"
    /\ pr' = [pr EXCEPT ![p] = [@ EXCEPT !.pc = "done",
                                         !.status = IF ok THEN 200 ELSE 500]]
    /\ swept' = NoCycle
    /\ UNCHANGED <<lifespan, cer, conf, hashseed, now, ttl, sweeper, files, assets,
                   connected_clients, ws, inbox, sp, ft>>

\* ------------------------------------------------------------- /ws/notify
\* websocket_notify: accept, then register the socket
WsConnectReplay(c) ==
    /\ ws[c] = "new"
    /\ ws' = [ws EXCEPT ![c] = "open"]
    /\ connected_clients' = Append(connected_clients, c)
    /\ inbox' = [inbox EXCEPT ![c] =
                    IF \E r \in SpeakIds : PublishStarted(r)
                    THEN <<CHOOSE r \in SpeakIds : PublishStarted(r)>> ELSE @]
    /\ swept' = NoCycle
    /\ UNCHANGED <<lifespan, cer, pr, conf, hashseed, now, ttl, sweeper, files, assets, sp, ft>>
WsConnect(c) ==
    /\ ws[c] = "new"
    /\ ws' = [ws EXCEPT ![c] = "open"]
    /\ connected_clients' = Append(connected_clients, c)
    /\ swept' = NoCycle
    /\ UNCHANGED <<lifespan, cer, pr, conf, hashseed, now, ttl, sweeper, files, assets, inbox, sp, ft>>

\* the peer goes away; the handler has not yet run
WsDrop(c) ==
    /\ ws[c] = "open"
    /\ ws' = [ws EXCEPT ![c] = "dropped"]
    /\ sp' = [r \in SpeakIds |-> IF sp[r].pc = "bcast"
                                 THEN [sp[r] EXCEPT !.whole = @ \ {c}] ELSE sp[r]]
    /\ swept' = NoCycle
    /\ UNCHANGED <<lifespan, cer, pr, conf, hashseed, now, ttl, sweeper, files, assets, connected_clients, inbox, ft>>

\* receive_text raises in the handler, whose finally clause unregisters the socket
WsHandlerExit(c) ==
    /\ ws[c] = "dropped"
    /\ ws' = [ws EXCEPT ![c] = "closed"]
    /\ connected_clients' = Remove(connected_clients, c)
    /\ swept' = NoCycle
    /\ UNCHANGED <<lifespan, cer, pr, conf, hashseed, now, ttl, sweeper, files, assets, inbox, sp, ft>>

\* receive_text raises in the handler while the peer is still connected (a
\* frame that is no text frame): `except Exception: pass`, the finally clause
\* unregisters the socket, and the handler returns, which closes the connection
WsHandlerFaultLeaves(c) ==
    /\ ws[c] = "open"
    /\ ws' = [ws EXCEPT ![c] = "closed"]
    /\ connected_clients' = connected_clients
    /\ sp' = [r \in SpeakIds |-> IF sp[r].pc = "bcast"
                                 THEN [sp[r] EXCEPT !.whole = @ \ {c}] ELSE sp[r]]
    /\ swept' = NoCycle
    /\ UNCHANGED <<lifespan, cer, pr, conf, hashseed, now, ttl, sweeper, files, assets, inbox, ft>>
WsHandlerFault(c) ==
    /\ ws[c] = "open"
    /\ ws' = [ws EXCEPT ![c] = "closed"]
    /\ connected_clients' = Remove(connected_clients, c)
    /\ sp' = [r \in SpeakIds |-> IF sp[r].pc = "bcast"
                                 THEN [sp[r] EXCEPT !.whole = @ \ {c}] ELSE sp[r]]
    /\ swept' = NoCycle
    /\ UNCHANGED <<lifespan, cer, pr, conf, hashseed, now, ttl, sweeper, files, assets, inbox, ft>>

\* ------------------------------------------------------------- cleanup
\* one cycle of cleanup_expired_audio_files, from the wake-up out of
\* asyncio.sleep to the next sleep (the cycle holds no await)
SweepCycle ==
    /\ sweeper = "sleeping"
    /\ IF SweepDisabled(ttl)
       THEN /\ swept' = [res |-> "skip", edge |-> {}, gone |-> {}, bad |-> {}]
            /\ UNCHANGED <<files, assets, ft>>
       ELSE LET gone == {k \in SweepCandidates : Present(k) /\ Expired(FileAge(k), ttl)} IN
            /\ files' = [k \in Guids |-> IF k \in gone THEN NoFile ELSE files[k]]
            /\ assets' = assets \ gone
            /\ swept' = [res |-> "sweep",
                         edge |-> {k \in Guids \ gone :
                                      Exists(k) /\ now - files[k].mtime = ttl},
                         gone |-> gone, bad |-> {}]
            /\ ft' = [f \in FetchIds |->
                         IF ft[f].pc = "send" /\ ft[f].guid \in gone
                         THEN [ft[f] EXCEPT !.since = {}] ELSE ft[f]]
    /\ UNCHANGED <<lifespan, cer, pr, conf, hashseed, now, ttl, sweeper, connected_clients, ws, inbox, sp>>

\* where the cleanup task is after an exception left a cycle: the outer
\* `except Exception` logs it and the loop goes on to the next sleep
AfterErrorDead == "dead"
AfterError == "sleeping"

\* the expired entries a cycle unlinks when stat or unlink raises for the
\* entries of bad: every entry is handled in a try/except of its own
UnlinkedUntilFailure(expired, bad) == IF expired \cap bad = {} THEN expired ELSE {}
Unlinked(expired, bad) == expired \ bad

\* a cycle in which something raises: stat or unlink raises for the entries of
\* bad, and, when raises is TRUE, the enumeration itself raises after the
\* entries of seen have been handled
SweepFault(seen, bad, raises) ==
    /\ sweeper = "sleeping"
    /\ ~SweepDisabled(ttl)
    /\ raises \/ (bad # {} /\ seen = SweepCandidates)
    /\ bad \subseteq {k \in seen : Present(k)}
    /\ LET expired == {k \in seen : Present(k) /\ Expired(FileAge(k), ttl)}
           gone == Unlinked(expired, bad)
       IN
       /\ files' = [k \in Guids |-> IF k \in gone THEN NoFile ELSE files[k]]
       /\ assets' = assets \ gone
       /\ swept' = [res |-> IF raises THEN "error" ELSE "sweep",
                    edge |-> {k \in Guids \ gone : Exists(k) /\ now - files[k].mtime = ttl},
                    gone |-> gone, bad |-> bad]
       /\ ft' = [f \in FetchIds |->
                    IF ft[f].pc = "send" /\ ft[f].guid \in gone
                    THEN [ft[f] EXCEPT !.since = {}] ELSE ft[f]]
       /\ sweeper' = IF raises THEN AfterError ELSE "sleeping"
    /\ UNCHANGED <<lifespan, cer, pr, conf, hashseed, now, ttl, connected_clients, ws,
                   inbox, sp>>

\* ------------------------------------------------------------- shutdown
\* lifespan after the yield: cancel the cleanup task, if there is one, and
\* await it
ShutdownStart ==
    /\ lifespan = "serving"
    /\ IF sweeper = "none"
       THEN lifespan' = "stopped" /\ sweeper' = sweeper
       ELSE lifespan' = "stopping" /\ sweeper' = "cancelling"
    /\ swept' = NoCycle
    /\ UNCHANGED <<cer, pr, conf, hashseed, now, ttl, files, assets, connected_clients,
                   ws, inbox, sp, ft>>

\* where the cleanup task is after CancelledError was raised at its
\* `await asyncio.sleep`: CancelledError is no Exception, the handler of the
\* loop does not catch it, and the task ends
AfterCancelSwallowed == "sleeping"
AfterCancel == "cancelled"

\* the cancellation reaches the cleanup task
SweeperCancelled ==
    /\ sweeper = "cancelling"
    /\ sweeper' = AfterCancel
    /\ swept' = NoCycle
    /\ UNCHANGED <<lifespan, cer, pr, conf, hashseed, now, ttl, files, assets,
                   connected_clients, ws, inbox, sp, ft>>

\* `await cleanup_task` returns (CancelledError, caught): the server is down
ShutdownDone ==
    /\ lifespan = "stopping"
    /\ sweeper \in {"cancelled", "dead"}
    /\ lifespan' = "stopped"
    /\ swept' = NoCycle
    /\ UNCHANGED <<cer, pr, conf, hashseed, now, ttl, sweeper, files, assets,
                   connected_clients, ws, inbox, sp, ft>>

\* ------------------------------------------------------------- environment
\* time passes
Tick ==
    /\ now < MaxTime
    /\ now' = now + 1
    /\ swept' = NoCycle
    /\ UNCHANGED <<lifespan, cer, pr, conf, hashseed, ttl, sweeper, files, assets, connected_clients, ws, inbox, sp, ft>>

\* config.audio_cache_ttl_seconds is assigned a new value while the server runs
SetTtl(t) ==
    /\ t # ttl
    /\ ttl' = t
    /\ swept' = NoCycle
    /\ UNCHANGED <<lifespan, cer, pr, conf, hashseed, now, sweeper, files, assets, connected_clients, ws, inbox, sp, ft>>

\* the server process ends and a new one is started: the new interpreter draws
\* its own hash seed, the module state (connected_clients, the requests in
\* flight) is gone with the old process, the files on disk stay, and lifespan
\* creates the cleanup task again when the ttl is positive
Restart(seed) ==
    /\ hashseed' = seed
    /\ connected_clients' = <<>>
    /\ ws' = [c \in Clients |-> IF ws[c] = "new" THEN "new" ELSE "closed"]
    /\ sp' = [r \in SpeakIds |-> IF sp[r].pc \in {"bcast", "send"}
                                 THEN [sp[r] EXCEPT !.pc = "done"] ELSE sp[r]]
    /\ ft' = [f \in FetchIds |-> IF ft[f].pc = "send"
                                 THEN [ft[f] EXCEPT !.pc = "done"] ELSE ft[f]]
    /\ sweeper' = IF ttl > 0 THEN "sleeping" ELSE "none"
    /\ swept' = NoCycle
    /\ lifespan' = "serving"
    /\ cer' = [cer EXCEPT !.session = 0]
    /\ pr' = [p \in PromptIds |-> IF pr[p].pc \in {"creating", "eval"}
                                  THEN [pr[p] EXCEPT !.pc = "done"] ELSE pr[p]]
    /\ UNCHANGED <<conf, now, ttl, files, assets, inbox>>

\* ------------------------------------------------------------- specifications
Speak ==
    \E r \in SpeakIds, cred \in Credentials, text \in Texts, outcome \in Outcomes :
        SpeakStart(r, cred, text, outcome)
Broadcast == \E r \in SpeakIds : BroadcastStep(r)
Respond == \E r \in SpeakIds : SpeakRespond(r)
GetAudio == \E f \in FetchIds, g \in FetchGuids : FetchStart(f, g)
GetAudioRespond == \E f \in FetchIds : FetchRespond(f)
Connect == \E c \in Clients : WsConnect(c)
Drop == \E c \in Clients : WsDrop(c)
HandlerExit == \E c \in Clients : WsHandlerExit(c)
HandlerFault == \E c \in Clients : WsHandlerFault(c)
Reconfigure == \E t \in TtlValues : SetTtl(t)
Reboot == \E seed \in Seeds : Restart(seed)
Prompt == \E p \in PromptIds, cred \in Credentials : PromptStart(p, cred)
SessionCreated == \E p \in PromptIds, ok \in BOOLEAN : PromptCreated(p, ok)
Evaluated == \E p \in PromptIds, ok \in BOOLEAN : PromptEval(p, ok)
FaultyCycle ==
    LET there == {k \in SweepCandidates : Present(k)} IN
    \E seen \in {SweepCandidates} \cup SUBSET there, bad \in SUBSET there, raises \in BOOLEAN :
        SweepFault(seen, bad, raises)

\* the whole server
Next ==
    \/ Speak \/ Broadcast \/ Respond
    \/ GetAudio \/ GetAudioRespond
    \/ Connect \/ Drop \/ HandlerExit \/ HandlerFault
    \/ SweepCycle \/ Tick \/ Reconfigure
    \/ Reboot \/ LoadConfig
    \/ FaultyCycle \/ ShutdownStart \/ SweeperCancelled \/ ShutdownDone
    \/ Prompt \/ SessionCreated \/ Evaluated

Spec == Init /\ [][Next]_vars

\* the notification side: the server started with ttl = 0, so that no cleanup
\* task exists and the clock is never read
InitHub == Init /\ ttl = 0

NextHub ==
    \/ Speak \/ Broadcast \/ Respond
    \/ Connect \/ Drop \/ HandlerExit \/ HandlerFault

SpecHub == InitHub /\ [][NextHub]_vars

\* the cache side: requests, the cleanup task and the clock, with no WebSocket
\* client connecting
NextCache ==
    \/ Speak \/ Respond
    \/ GetAudio \/ GetAudioRespond
    \/ SweepCycle \/ Tick \/ Reconfigure

SpecCache == Init /\ [][NextCache]_vars

\* the cache across process runs: requests and restarts of the server, with
\* no WebSocket client and the clock standing still
NextRestart ==
    \/ Speak \/ Respond
    \/ GetAudio \/ GetAudioRespond
    \/ Reboot

SpecRestart == Init /\ [][NextRestart]_vars

\* the cleanup task: speak requests while the server serves, the clock, the
\* cycles of the task with and without errors, and the shutdown
NextSweeper ==
    \/ (lifespan = "serving" /\ (Speak \/ Respond))
    \/ SweepCycle \/ FaultyCycle \/ Tick
    \/ ShutdownStart \/ SweeperCancelled \/ ShutdownDone

SpecSweeper == Init /\ [][NextSweeper]_vars

\* the event loop runs a task that is ready: the timer of the sleep fires and
\* a cycle without errors comes round, a cancellation requested is delivered,
\* and the lifespan resumes once the task it awaits has ended
SweeperFairness ==
    /\ WF_vars(SweepCycle)
    /\ WF_vars(SweeperCancelled)
    /\ WF_vars(ShutdownDone)

SpecSweeperFair == SpecSweeper /\ SweeperFairness

\* the reasoning session: prompt requests only
NextPrompt == Prompt \/ SessionCreated \/ Evaluated

SpecPrompt == Init /\ [][NextPrompt]_vars

\* the settings: the module app.config is imported in every environment and
\* with every clara_config.json
InitConfig ==
    /\ conf \in [pc : {"start"}, env : Environments, file : ConfigFiles, cfg : {Defaults}]
    /\ ServerStart /\ hashseed = "s1" /\ ttl = 0

NextConfig == LoadConfig

SpecConfig == InitConfig /\ [][NextConfig]_vars

TypeOK ==
    /\ now \in Times
    /\ ttl \in TtlValues
    /\ sweeper \in {"none", "sleeping", "cancelling", "cancelled"}
    /\ lifespan \in {"serving", "stopping", "stopped"}
    /\ \A k \in Guids : files[k].mtime \in Times
    /\ \A c \in Clients : ws[c] \in {"new", "open", "dropped", "closed"}
    /\ \A r \in SpeakIds : sp[r].pc \in {"idle", "bcast", "send", "done"}
    /\ \A f \in FetchIds : ft[f].pc \in {"idle", "send", "done"}

\* ------------------------------------------------------------- properties
Delivered(r) == {c \in Clients : \E i \in 1..Len(inbox[c]) : inbox[c][i] = r}
Count(c, r) == Cardinality({i \in 1..Len(inbox[c]) : inbox[c][i] = r})
Starts(r) == sp[r].pc = "idle" /\ sp'[r].pc # "idle"
WithText(r) == Authorized(sp[r].cred) /\ sp[r].text # NoText

\* C1: a speak request whose credential differs from the configured token is
\* answered 403 in the step that receives it, and that step changes neither
\* the cached files nor any subscriber's inbox nor the subscriber list; the
\* request takes no later step.
C1_UnauthorizedNoEffect ==
    [][\A r \in SpeakIds :
          /\ (Starts(r) /\ sp'[r].cred # bearer_token)
                => /\ sp'[r].pc = "done" /\ sp'[r].status = 403
                   /\ files' = files /\ inbox' = inbox
                   /\ connected_clients' = connected_clients
          /\ (sp[r].pc = "done" /\ sp[r].cred # bearer_token) => sp'[r] = sp[r]]_vars

C1_Witness ==
    \E r \in SpeakIds :
        /\ sp[r].status = 403 /\ sp[r].cred # bearer_token /\ sp[r].text = "a"
        /\ ~Exists(text_hash("a"))
        /\ \E c \in Clients : ws[c] = "open" /\ inbox[c] = <<>>

C3_ExactlyOne ==
    \A t \in Texts \ {NoText} :
        (\A r \in SpeakIds : /\ sp[r].pc = "done" /\ Authorized(sp[r].cred)
                             /\ sp[r].text = t /\ sp[r].ev[1] # "raise")
        => Cardinality({k \in Guids : k = text_hash(t) /\ Exists(k)}) = 1

\* C3, amended: a speak request that has passed resolve-or-create without the
\* synthesis raising leaves the one file of its key in the cache, and a file
\* leaves the cache only when a cleanup cycle deletes it.
C3_OneUntilSwept ==
    [][/\ \A r \in SpeakIds :
             (Starts(r) /\ sp'[r].ev # <<>> /\ sp'[r].ev[1] # "raise")
             => Cardinality({k \in Guids : k = text_hash(sp'[r].text) /\ Exists(k)'}) = 1
       /\ \A k \in Guids :
             (Exists(k) /\ ~Exists(k)') => (swept'.res = "sweep" /\ k \in swept'.gone)]_vars

C3_Witness ==
    \E t \in Texts \ {NoText} :
        /\ \A r \in SpeakIds : sp[r].pc = "done" /\ Authorized(sp[r].cred) /\ sp[r].text = t
        /\ \E r \in SpeakIds : sp[r].ev[1] = "hit"
        /\ Exists(text_hash(t))

\* C4: a speak request that arrives while the file of its key is present
\* invokes no synthesis (it records a hit), and no step rewrites a file that
\* is present.
C4_NoResynthesis ==
    [][\A k \in Guids :
          Exists(k) =>
             /\ Exists(k)' => files'[k] = files[k]
             /\ \A r \in SpeakIds :
                   (Starts(r) /\ sp'[r].ev # <<>> /\ text_hash(sp'[r].text) = k)
                   => sp'[r].ev[1] = "hit"]_vars

C4_Witness ==
    \E r \in SpeakIds :
        /\ sp[r].ev # <<>> /\ sp[r].ev[1] = "hit"
        /\ Exists(KeyOf(r)) /\ files[KeyOf(r)].mtime < now
        /\ swept.res = "sweep"

\* C5: within a speak request with text, a key is sent to a subscriber only
\* after the artifact has been resolved or written and while no response has
\* been produced; nothing is sent once the publish has finished; and the
\* response of the cached artifact is produced only after the publish finished.
C5_WritePublishRespond ==
    [][\A r \in SpeakIds :
          /\ Delivered(r)' # Delivered(r)
                => /\ PublishStarted(r)' /\ files'[text_hash(sp'[r].text)].content # Absent
                   /\ sp'[r].pc = "bcast" /\ sp'[r].status = 0
          /\ (sp[r].ev # <<>> /\ sp[r].ev[Len(sp[r].ev)] = "pub")
                => Delivered(r)' = Delivered(r)
          /\ (sp[r].status = 0 /\ sp'[r].status # 0 /\ sp'[r].path = "cache")
                => /\ sp[r].pc = "send"
                   /\ Len(sp[r].ev) = 2 /\ sp[r].ev[2] = "pub"
                   /\ sp'[r].ev = Append(sp[r].ev, "resp")]_vars

C5_Witness ==
    \E r \in SpeakIds :
        /\ sp[r].ev = <<"tts", "pub", "resp">> /\ sp[r].status = 200
        /\ Delivered(r) = Clients

\* C6 as stated: when a publish has finished, every channel that was
\* subscribed and connected during the whole of it has received the key
\* exactly once.
C6_FanOutComplete ==
    \A r \in SpeakIds :
        (sp[r].ev # <<>> /\ "pub" \in {sp[r].ev[i] : i \in 1..Len(sp[r].ev)})
        => \A c \in sp[r].whole : Count(c, r) = 1

\* C7 as stated: a subscriber receives the keys in the order in which their
\* publishes started.
C7_PublishOrder ==
    \A c \in Clients :
        \A i, j \in 1..Len(inbox[c]) :
            i < j => sp[inbox[c][i]].ord < sp[inbox[c][j]].ord

\* C8 as stated: a fetch of the key that starts after a speak request has
\* returned the artifact of that key with 200 returns 200 and the same bytes.
C8_FetchAfterSpeak ==
    \A f \in FetchIds :
        ft[f].pc = "done"
        => \A r \in ft[f].after : ft[f].status = 200 /\ ft[f].body = sp[r].body

\* C8, amended: such a fetch returns 200 and the same bytes when no cleanup
\* cycle has deleted the artifact between the speak response and the moment
\* the fetch streams the file.
C8_FetchSameBytes ==
    \A f \in FetchIds :
        ft[f].pc = "done"
        => \A r \in ft[f].since : ft[f].status = 200 /\ ft[f].body = sp[r].body

C8_Witness ==
    \E f \in FetchIds :
        /\ ft[f].pc = "done" /\ ft[f].status = 200 /\ ft[f].since # {}
        /\ \A r \in ft[f].since : ft[f].body = sp[r].body /\ KeyOf(r) = ft[f].guid

\* C9: a cleanup cycle that runs with ttl > 0 deletes exactly the files whose
\* age is greater than ttl; a file whose age equals ttl is kept.
C9_StrictTtl ==
    [][swept'.res = "sweep"
          => /\ ttl > 0
             /\ \A k \in Guids :
                   Exists(k) => (~Exists(k)' <=> now - files[k].mtime > ttl)]_vars

C9_Witness ==
    /\ swept.res = "sweep"
    /\ \E k \in swept.edge : Exists(k) /\ now - files[k].mtime = ttl
    /\ \E k \in swept.gone : ~Exists(k)

\* C10: a cleanup cycle that wakes while ttl <= 0 deletes nothing, whatever
\* the ttl was in earlier cycles, and no step deletes a file while ttl <= 0.
C10_DisabledKeepsAll ==
    [][ttl <= 0
          => /\ swept'.res # "sweep"
             /\ \A k \in Guids : Exists(k) => Exists(k)' /\ files'[k] = files[k]]_vars

C10_Witness ==
    /\ swept.res = "skip" /\ ttl = 0
    /\ \E k \in Guids : Exists(k) /\ now - files[k].mtime = MaxTime

InList(c) == \E i \in 1..Len(connected_clients) : connected_clients[i] = c
Published(r) == \E i \in 1..Len(sp[r].ev) : sp[r].ev[i] = "pub"

\* C11 as stated: a speak or fetch request that found the artifact file present
\* ends with the artifact (200) or with not-found (404), also when a cleanup
\* cycle deleted the file before it was streamed; it never ends in an
\* unhandled error.
C11_VanishedIsNotFound ==
    /\ \A r \in SpeakIds :
          (sp[r].pc = "done" /\ sp[r].path = "cache" /\ Published(r))
          => sp[r].status \in {200, 404}
    /\ \A f \in FetchIds :
          (ft[f].pc = "done" /\ ft[f].found) => ft[f].status \in {200, 404}

\* C12: a socket is in connected_clients from its connect until its handler
\* has exited; a socket to which a send of some publish failed has lost its
\* connection, and it is out of the list once its handler has run.
C12_RemovedAfterFailure ==
    /\ \A c \in Clients : InList(c) <=> ws[c] \in {"open", "dropped"}
    /\ \A r \in SpeakIds : \A c \in sp[r].failed :
          /\ ws[c] \in {"dropped", "closed"}
          /\ ws[c] = "closed" => ~InList(c)

C12_Witness ==
    \E r \in SpeakIds : \E c \in sp[r].failed :
        /\ Published(r) /\ ws[c] = "closed" /\ ~InList(c)
        /\ \E d \in Clients \ {c} : InList(d) /\ ws[d] = "open"

\* C13: a key reaches a socket only by a send of a publish that is under way
\* while the socket is registered, and at most once per publish; a socket
\* that connects is handed nothing of the publishes that came before.
C13_NoReplay ==
    [][\A c \in Clients :
          /\ ws[c] = "new" => inbox'[c] = <<>>
          /\ \A r \in SpeakIds :
                Count(c, r)' # Count(c, r)
                => /\ InList(c) /\ ws[c] = "open"
                   /\ ~Published(r) /\ sp'[r].pc = "bcast"
                   /\ Count(c, r) = 0 /\ Count(c, r)' = 1]_vars

C13_Witness ==
    \E c \in Clients : \E q, r \in SpeakIds :
        /\ Published(q) /\ sp[q].idx = 0 /\ sp[q].ord < sp[r].ord
        /\ inbox[c] = <<r>> /\ Published(r)

\* C14: removing a socket that is not in the list leaves the list as it is,
\* and a publish whose list is changed under its iterator (sockets added or
\* removed between two sends) goes on without an error: each of its turns
\* sends to a socket of the list or ends the publish normally, and a handler
\* that exits ends closed with its socket out of the list.
C14_SafeMutation ==
    [][/\ \A c \in Clients : ~InList(c) => Remove(connected_clients, c) = connected_clients
       /\ \A r \in SpeakIds :
             (sp[r].pc = "bcast" /\ sp'[r] # sp[r] /\ sp'[r].whole = sp[r].whole)
             => /\ sp'[r].status = 0
                /\ \/ sp'[r].pc = "bcast" /\ sp'[r].idx = sp[r].idx + 1
                   \/ sp'[r].pc = "send" /\ Published(r)'
       /\ \A c \in Clients :
             (ws[c] = "dropped" /\ ws'[c] # "dropped")
             => ws'[c] = "closed" /\ ~InList(c)']_vars

C14_Witness ==
    \E r \in SpeakIds :
        /\ sp[r].pc = "bcast" /\ sp[r].idx > Len(connected_clients) /\ sp[r].status = 0
        /\ \E c \in Clients : ws[c] = "closed" /\ ~InList(c)

C16_AssetsKept ==
    /\ assets = {MastersOfTheEarth}
    /\ swept.gone \subseteq Guids

C16_Witness ==
    /\ swept.res = "sweep" /\ swept.gone # {}
    /\ MastersOfTheEarth \in assets
    /\ Expired(FileAge(MastersOfTheEarth), ttl)

\* C17 as stated: the key is a function of the text alone: any two speak
\* requests with the same text computed the same key, in the same process run
\* or in different ones.
C17_StableKey ==
    \A q, r \in SpeakIds :
        (sp[q].guid # "" /\ sp[r].guid # "" /\ sp[q].text = sp[r].text)
        => sp[q].guid = sp[r].guid

\* C18 as stated: a fetch by key answers 404 exactly when no file of the key
\* is present at the time of the lookup and returns the artifact (200 and its
\* bytes) otherwise, and neither the lookup nor the response changes the
\* cached files, the subscriber list or any inbox.
C18_PureLookup ==
    [][\A f \in FetchIds :
          /\ ft'[f].pc # ft[f].pc
                => /\ files' = files /\ assets' = assets /\ inbox' = inbox
                   /\ connected_clients' = connected_clients
          /\ (ft[f].pc = "idle" /\ ft'[f].pc # "idle")
                => LET g == ft'[f].guid IN
                   (ft'[f].status = 404) <=> ~(g \in Guids /\ Exists(g))
          /\ (ft[f].pc # "done" /\ ft'[f].pc = "done" /\ ft'[f].found)
                => ft'[f].status = 200 /\ ValidWav(ft'[f].body)]_vars

\* the value that precedence selects for a setting: the environment variable
\* if set, else the file's value if the file has the key, else the built-in
Selected(k, builtin) ==
    IF k \in DOMAIN conf.env /\ conf.env[k] # Unset THEN conf.env[k]
    ELSE IF conf.file.kind = "object" /\ conf.file.data[k] # Unset THEN conf.file.data[k]
    ELSE builtin

\* the integer a value stands for
NumberOf(v) ==
    IF v.t = "int" THEN v.i ELSE (CHOOSE d \in DecimalStrings : d[2] = v.s)[1]

\* C19: in a Config object that was constructed, host and bearer token are
\* the values selected by precedence (environment, then file, then 0.0.0.0 and
\* mysecrettoken), port and ttl are the integers of the values selected
\* (built-ins 8000 and 3600), and the cleanup interval is the file's value or
\* else 300.
C19_Precedence ==
    conf.pc = "loaded"
    => /\ conf.cfg.host = Selected("host", StrV("0.0.0.0"))
       /\ conf.cfg.bearer_token = Selected("bearer_token", StrV("mysecrettoken"))
       /\ conf.cfg.port = IntV(NumberOf(Selected("port", IntV(8000))))
       /\ conf.cfg.audio_cache_ttl_seconds =
             IntV(NumberOf(Selected("audio_cache_ttl_seconds", IntV(3600))))
       /\ conf.cfg.audio_cache_cleanup_interval_seconds =
             Selected("audio_cache_cleanup_interval_seconds", IntV(300))

C19_Witness ==
    /\ conf.pc = "loaded"
    /\ conf.env.port = StrV("5000") /\ conf.file.data.port = IntV(9000)
    /\ conf.cfg.port = IntV(5000)
    /\ conf.env.host = Unset /\ conf.file.data.host = StrV("127.0.0.1")
    /\ conf.cfg.host = StrV("127.0.0.1")
    /\ conf.env.audio_cache_ttl_seconds = Unset
    /\ conf.file.data.audio_cache_ttl_seconds = Unset
    /\ conf.cfg.audio_cache_ttl_seconds = IntV(3600)
    /\ conf.cfg.audio_cache_cleanup_interval_seconds = IntV(300)

\* C20: a publish in which sends failed still runs to its end, and its speak
\* request returns 200 with the artifact of its key, also when every send of
\* the publish failed.
C20_SendFailuresSwallowed ==
    \A r \in SpeakIds :
        sp[r].failed # {}
        => /\ sp[r].status \in {0, 200}
           /\ sp[r].pc \in {"send", "done"} => Published(r)
           /\ sp[r].pc = "done"
                 => /\ sp[r].status = 200 /\ ValidWav(sp[r].body)
                    /\ sp[r].body = files[sp[r].guid].content

C20_Witness ==
    \E r \in SpeakIds :
        /\ sp[r].pc = "done" /\ sp[r].status = 200 /\ sp[r].body = "tts:a"
        /\ Cardinality(sp[r].failed) = NumClients
        /\ sp[r].idx = NumClients /\ Delivered(r) = {}

\* C21: a cycle of the cleanup task that ended with an exception leaves the
\* task in its interval wait, from which the next cycle can run; as long as
\* the server has not begun its shutdown, a task that was started is waiting
\* for its next cycle.
C21_SweeperSurvives ==
    /\ swept.res = "error" => (sweeper = "sleeping" /\ ENABLED SweepCycle)
    /\ (ttl > 0 /\ lifespan = "serving") => sweeper = "sleeping"
    /\ sweeper \in {"cancelling", "cancelled"} => lifespan # "serving"

C21_Witness ==
    /\ swept.res = "error" /\ swept.gone = {} /\ sweeper = "sleeping"
    /\ lifespan = "serving"
    /\ \E k \in Guids : Exists(k) /\ Expired(FileAge(k), ttl)

\* C22: in a cycle in which stat or unlink raised for some entries, every
\* other entry that the cycle enumerated and whose age exceeds ttl is deleted
\* in that cycle, and the entries that are not expired are kept.
C22_PartialFailure ==
    [][(swept'.res \in {"sweep", "error"} /\ swept'.bad # {})
          => \A k \in Guids \ swept'.bad :
                /\ (swept'.res = "sweep" /\ Exists(k) /\ Expired(FileAge(k), ttl))
                      => ~Exists(k)'
                /\ (Exists(k) /\ ~Expired(FileAge(k), ttl)) => files'[k] = files[k]]_vars

C22_Witness ==
    /\ swept.res = "sweep"
    /\ \E k \in swept.bad : Exists(k) /\ Expired(FileAge(k), ttl)
    /\ \E k \in swept.gone : ~Exists(k)

\* C23: a shutdown that has cancelled the cleanup task and awaits it comes to
\* its end: the cancellation ends the task, which does not go back to sleep.
C23_ShutdownCompletes ==
    (lifespan = "stopping") ~> (lifespan = "stopped" /\ sweeper = "cancelled")

C23_Witness ==
    /\ lifespan = "stopped" /\ sweeper = "cancelled"
    /\ \E k \in Guids : Exists(k) /\ Expired(FileAge(k), ttl)

\* C24: while the cleanup task runs, a cached file whose age has exceeded ttl
\* is deleted at some later time, whether or not speak requests still hit it.
C24_BoundedLifetime ==
    \A k \in Guids :
        (Exists(k) /\ now - files[k].mtime > ttl /\ sweeper = "sleeping")
        ~> (~Exists(k) \/ sweeper # "sleeping")

C24_Witness ==
    /\ swept.res = "sweep" /\ swept.gone # {} /\ sweeper = "sleeping"
    /\ \E r \in SpeakIds :
          /\ sp[r].guid \in swept.gone /\ sp[r].ev # <<>> /\ sp[r].ev[1] = "hit"
          /\ sp[r].pc = "send"

\* C25: a speak request that returned the cached artifact ran one publish,
\* after a hit as after a synthesis: its message, sent at most once to a
\* socket, is the key computed from the text, which is also the value of the
\* response header and the name of the file served.
C25_PublishOnce ==
    \A r \in SpeakIds :
        (sp[r].pc = "done" /\ sp[r].path = "cache" /\ sp[r].status = 200)
        => /\ Len(sp[r].ev) = 3 /\ sp[r].ev[1] \in {"hit", "tts", "silence"}
           /\ sp[r].ev[2] = "pub" /\ sp[r].ev[3] = "resp"
           /\ sp[r].guid = text_hash(sp[r].text)
           /\ sp[r].sent \subseteq {sp[r].guid}
           /\ sp[r].header = sp[r].guid /\ sp[r].file = sp[r].guid
           /\ \A c \in Clients :
                 /\ Count(c, r) <= 1
                 /\ Count(c, r) = 1 => sp[r].sent = {sp[r].guid}

C25_Witness ==
    \E q, r \in SpeakIds : \E c \in Clients :
        /\ sp[q].pc = "done" /\ sp[q].status = 200 /\ sp[q].ev[1] = "tts"
        /\ sp[r].pc = "done" /\ sp[r].status = 200 /\ sp[r].ev[1] = "hit"
        /\ sp[q].guid = sp[r].guid /\ sp[r].header = sp[q].file
        /\ inbox[c] = <<q, r>>

\* C26 as stated: the backend has created at most one session, and all the
\* prompt requests that got a session got the same one.
C26_SingleSession ==
    /\ cer.created <= 1
    /\ \A p, q \in PromptIds :
          (pr[p].session # 0 /\ pr[q].session # 0) => pr[p].session = pr[q].session

\* how often a socket stands in the subscriber list
Occurrences(c) == Cardinality({i \in 1..Len(connected_clients) : connected_clients[i] = c})

\* C27: every socket whose handler is in its receive loop (connected, or gone
\* with the handler not yet resumed) stands in connected_clients exactly once,
\* and a socket that was never accepted or whose handler has exited, by a
\* disconnect or by another exception of receive_text, stands in it not at all.
C27_ListIsReceiveLoops ==
    \A c \in Clients :
        Occurrences(c) = IF ws[c] \in {"open", "dropped"} THEN 1 ELSE 0

C27_Witness ==
    \E c, d \in Clients :
        /\ ws[c] = "closed" /\ Occurrences(c) = 0
        /\ ws[d] = "dropped" /\ Occurrences(d) = 1
        /\ connected_clients = <<d>>

====
